---- MODULE Spec2Model ----
(***************************************************************************)
(* A model of torch/csrc/jit/passes/onnx/peephole.cpp: the ONNX peephole   *)
(* passes over the JIT graph, their pure helpers (composeTransposes,       *)
(* fusibleExpandTo, ...) and the pipeline PeepholeOptimizeONNX.            *)
(*                                                                         *)
(* Indices are the source's 0-based indices; a TLA+ sequence s holds the   *)
(* C++ element s[i] at s[i + 1].                                           *)
(***************************************************************************)
EXTENDS Integers, Sequences, FiniteSets, TLC

VARIABLES
  graph,   \* the Graph handed to PeepholeOptimizeONNX: nodes, node list, use lists
  pc,      \* the pass of PeepholeOptimizeONNX that is running, "done" or "failed"
  it,      \* the node the running pass's iterator stands on (output_ at end())
  before,  \* history: the graph as the running pass found it
  used,    \* history: the nodes that have had a use of an output at some time
  call,    \* the pure helper under evaluation and its arguments
  ret      \* what the helper returned (or how it failed)

vars == <<graph, pc, it, before, used, call, ret>>

(***************************************************************************)
(* Bounds of the model.                                                    *)
(***************************************************************************)
MaxPermLen == 4     \* longest permutation handed to composeTransposes
MaxShapeRank == 3   \* longest shape handed to fusibleExpandTo
MaxDim == 4         \* largest dimension size in a shape
MaxTransposes == 3  \* most transpose nodes in a graph
MaxLayers == 2      \* most stacked recurrent nodes after a packing node
MaxAssocLen == 3    \* longest permutations composed three at a time
MaxVecLen == 2      \* longest vector, and largest entry, handed to composeTransposes unchecked

(***************************************************************************)
(* Pure helpers, peephole.cpp lines 12-115.                                *)
(***************************************************************************)
\* std::vector / IntList indexing with the source's 0-based index.
At(s, i) == s[i + 1]

\* Permutations of 0..n-1 as vectors.
Perms(n) == { p \in [1..n -> 0..(n - 1)] : \A i, j \in 1..n : p[i] = p[j] => i = j }

isRNN(kind) == kind \in {"RNN", "LSTM", "GRU"}

isNopTranspose(perm) == \A i \in 0..(Len(perm) - 1) : At(perm, i) = i

\* composeTransposes pushing t1[i] instead of t2[t1[i]].
RECURSIVE composeLoop_First(_, _, _, _)
composeLoop_First(t1, t2, i, ret_) ==
  IF ~(i < Len(t1)) THEN [status |-> "returned", value |-> ret_]
  ELSE IF ~(At(t1, i) < Len(t2)) THEN [status |-> "assert", value |-> ret_]
  ELSE IF At(t1, i) < 0 THEN [status |-> "undefined", value |-> ret_]
  ELSE IF ~(At(t2, At(t1, i)) < Len(t2)) THEN [status |-> "assert", value |-> ret_]
  ELSE composeLoop_First(t1, t2, i + 1, Append(ret_, At(t1, i)))

\* The loop of composeTransposes from index i on, ret_ being the vector built
\* so far.  The first assertion does not reject a negative t1[i]; t2[t1[i]] is
\* then a read before the start of t2's storage.
RECURSIVE composeLoop(_, _, _, _)
composeLoop(t1, t2, i, ret_) ==
  IF ~(i < Len(t1)) THEN [status |-> "returned", value |-> ret_]
  ELSE IF ~(At(t1, i) < Len(t2)) THEN [status |-> "assert", value |-> ret_]
  ELSE IF At(t1, i) < 0 THEN [status |-> "undefined", value |-> ret_]
  ELSE IF ~(At(t2, At(t1, i)) < Len(t2)) THEN [status |-> "assert", value |-> ret_]
  ELSE composeLoop(t1, t2, i + 1, Append(ret_, At(t2, At(t1, i))))

composeTransposes(t1, t2) ==
  IF Len(t1) # Len(t2) THEN [status |-> "assert", value |-> <<>>]
  ELSE composeLoop(t1, t2, 0, <<>>)

isBroadcasting(kind) == kind \in {"Add", "Div", "Mul", "Pow", "Sub", "Gemm"}

\* while (from_dim_start < from.size() && from[from_dim_start] == 1) from_dim_start++;
RECURSIVE skipLeadingOnes(_, _)
skipLeadingOnes(from, from_dim_start) ==
  IF from_dim_start < Len(from) /\ At(from, from_dim_start) = 1
  THEN skipLeadingOnes(from, from_dim_start + 1)
  ELSE from_dim_start

\* A trailing scan that trims nothing: the core keeps from's trailing ones.
skipTrailingOnes_None(from, from_dim_start, from_dim_end) == from_dim_end

\* while (from_dim_end > from_dim_start && from[from_dim_end] == 1) from_dim_end--;
RECURSIVE skipTrailingOnes(_, _, _)
skipTrailingOnes(from, from_dim_start, from_dim_end) ==
  IF from_dim_end > from_dim_start /\ At(from, from_dim_end) = 1
  THEN skipTrailingOnes(from, from_dim_start, from_dim_end - 1)
  ELSE from_dim_end

\* for (; f >= from_dim_start && t >= 0; --f, --t) if (from[f] != to[t]) {...; break;}
\* The result is the loop's exit state: f and whether no mismatch was met.
RECURSIVE trailingLoop(_, _, _, _, _)
trailingLoop(from, to, from_dim_start, f, t) ==
  IF f >= from_dim_start /\ t >= 0
  THEN IF At(from, f) # At(to, t)
       THEN [f |-> f, expand |-> FALSE]
       ELSE trailingLoop(from, to, from_dim_start, f - 1, t - 1)
  ELSE [f |-> f, expand |-> TRUE]

\* for (; f <= from_dim_end && t < to.size(); ++f, ++t) if (from[f] != to[t]) {...; break;}
RECURSIVE leadingLoop(_, _, _, _, _)
leadingLoop(from, to, from_dim_end, f, t) ==
  IF f <= from_dim_end /\ t < Len(to)
  THEN IF At(from, f) # At(to, t)
       THEN [f |-> f, expand |-> FALSE]
       ELSE leadingLoop(from, to, from_dim_end, f + 1, t + 1)
  ELSE [f |-> f, expand |-> TRUE]

\* The returned tuple: fusible, and the optional axis (hasAxis, axis).
NotFusible == [fusible |-> FALSE, hasAxis |-> FALSE, axis |-> 0]
FusibleNoAxis == [fusible |-> TRUE, hasAxis |-> FALSE, axis |-> 0]
FusibleAxis(a) == [fusible |-> TRUE, hasAxis |-> TRUE, axis |-> a]

\* fusibleExpandTo without its search at the leading dimension.
fusibleExpandTo_TrailingOnly(from, to) ==
  IF Len(from) > Len(to) THEN NotFusible
  ELSE
    LET from_dim_start == skipLeadingOnes(from, 0)
        from_dim_end == skipTrailingOnes(from, from_dim_start, Len(from) - 1)
        trailing == trailingLoop(from, to, from_dim_start, from_dim_end, Len(to) - 1)
    IN  IF trailing.expand /\ trailing.f <= from_dim_start THEN FusibleNoAxis
        ELSE NotFusible

fusibleExpandTo(from, to) ==
  IF Len(from) > Len(to) THEN NotFusible
  ELSE
    LET from_dim_start == skipLeadingOnes(from, 0)
        from_dim_end == skipTrailingOnes(from, from_dim_start, Len(from) - 1)
        trailing == trailingLoop(from, to, from_dim_start, from_dim_end, Len(to) - 1)
        leading == leadingLoop(from, to, from_dim_end, from_dim_start, 0)
    IN  IF trailing.expand /\ trailing.f <= from_dim_start THEN FusibleNoAxis
        ELSE IF leading.expand /\ leading.f >= from_dim_end THEN FusibleAxis(0)
        ELSE NotFusible


(***************************************************************************)
(* The Graph IR.  A Value is <<node, output offset>>; a Use is             *)
(* <<user node, input offset>>.  graph.nodes maps a node to its kind,      *)
(* inputs, number of outputs and attributes; graph.order is the node list  *)
(* graph->nodes() walks; graph.uses maps each value to its use list;       *)
(* graph.types maps the values that carry a TensorType to their sizes;     *)
(* graph.error names the assertion that failed, "none" while none has.     *)
(* The Param node input_ owns the graph's inputs; the Return node output_  *)
(* reads the graph's outputs and is the sentinel of the node list.         *)
(* Nodes are built with the arity of their operator: Transpose and expand  *)
(* have one input and one output, PackPadded and PadPacked two and two,    *)
(* Gemm three inputs, so Node::input() and Node::output() do not fail.     *)
(***************************************************************************)
input_ == 0
output_ == 1

node(v) == v[1]
offset(v) == v[2]

kind(g, n) == g.nodes[n].kind
inputs(g, n) == g.nodes[n].inputs
outputs(g, n) == [k \in 1..g.nodes[n].nout |-> <<n, k - 1>>]
uses(g, v) == g.uses[v]
hasAttribute(g, n, name) == name \in DOMAIN g.nodes[n].attrs
attr(g, n, name) == g.nodes[n].attrs[name]
isTensor(g, v) == v \in DOMAIN g.types
sizes(g, v) == g.types[v]

\* Node::hasUses: some output has a use.
hasUses(g, n) == \E k \in 1..g.nodes[n].nout : uses(g, <<n, k - 1>>) # <<>>

fail(g, what) == [g EXCEPT !.error = what]

\* Node::i_, is_, t_: set (or overwrite) an attribute.
setAttr(g, n, name, v) ==
  [g EXCEPT !.nodes[n].attrs = (name :> v) @@ g.nodes[n].attrs]

\* Node::dropInput: take the use (n, i) off the use list of n's input i.
dropInput(g, n, i) ==
  LET old == At(inputs(g, n), i)
  IN  [g EXCEPT !.uses[old] = SelectSeq(g.uses[old], LAMBDA u : u # <<n, i>>)]

\* Node::replaceInput(i, newValue)
replaceInput(g, n, i, newValue) ==
  LET g1 == dropInput(g, n, i)
      g2 == [g1 EXCEPT !.nodes[n].inputs[i + 1] = newValue]
  IN  [g2 EXCEPT !.uses[newValue] = Append(g2.uses[newValue], <<n, i>>)]

\* Node::addInput
addInput(g, n, v) ==
  LET g1 == [g EXCEPT !.uses[v] = Append(g.uses[v], <<n, Len(inputs(g, n))>>)]
  IN  [g1 EXCEPT !.nodes[n].inputs = Append(g1.nodes[n].inputs, v)]

\* Value::replaceFirstUseWith: uses()[0] moves to newValue.  On an empty use
\* list uses()[0] is a read past the end of the vector.
replaceFirstUseWith(g, old, newValue) ==
  IF uses(g, old) = <<>> THEN fail(g, "undefined: uses()[0] of an empty use list")
  ELSE
    LET u == Head(uses(g, old))
        g1 == [g EXCEPT !.nodes[u[1]].inputs[u[2] + 1] = newValue]
        g2 == [g1 EXCEPT !.uses[newValue] = Append(g1.uses[newValue], u)]
    IN  [g2 EXCEPT !.uses[old] = Tail(g2.uses[old])]

\* Value::replaceAllUsesWith: while (!uses().empty()) replaceFirstUseWith(newValue)
RECURSIVE replaceAllUsesWith(_, _, _)
replaceAllUsesWith(g, old, newValue) ==
  IF uses(g, old) = <<>> THEN g
  ELSE replaceAllUsesWith(replaceFirstUseWith(g, old, newValue), old, newValue)

\* Node::replaceAllUsesWith(Node* m): output i of n is replaced by output i of
\* m, and the two nodes must have the same number of outputs.
RECURSIVE replaceOutputsFrom(_, _, _, _)
replaceOutputsFrom(g, n, m, i) ==
  IF ~(i < g.nodes[n].nout) THEN g
  ELSE replaceOutputsFrom(replaceAllUsesWith(g, <<n, i>>, <<m, i>>), n, m, i + 1)

nodeReplaceAllUsesWith(g, n, m) ==
  IF g.nodes[n].nout # g.nodes[m].nout
  THEN fail(g, "JIT_ASSERT(outputs().size() == n->outputs().size())")
  ELSE replaceOutputsFrom(g, n, m, 0)

\* Node::removeAllInputs
RECURSIVE dropInputsFrom(_, _, _)
dropInputsFrom(g, n, i) ==
  IF ~(i < Len(inputs(g, n))) THEN g
  ELSE dropInputsFrom(dropInput(g, n, i), n, i + 1)

removeAllInputs(g, n) ==
  [dropInputsFrom(g, n, 0) EXCEPT !.nodes[n].inputs = <<>>]

\* Graph::create(kind, num_outputs): a node outside the node list.
create(g, k, num_outputs) ==
  LET n == g.next
  IN  [g EXCEPT
        !.nodes = (n :> [kind |-> k, inputs |-> <<>>, nout |-> num_outputs, attrs |-> <<>>]) @@ g.nodes,
        !.uses = [v \in {<<n, j>> : j \in 0..(num_outputs - 1)} |-> <<>>] @@ g.uses,
        !.next = n + 1]

indexOf(order, n) == CHOOSE i \in 1..Len(order) : order[i] = n
inList(order, n) == \E i \in 1..Len(order) : order[i] = n
insertAt(order, i, n) == SubSeq(order, 1, i - 1) \o <<n>> \o SubSeq(order, i, Len(order))

\* Node::insertBefore / Node::insertAfter
insertBefore(g, n, anchor) ==
  [g EXCEPT !.order = insertAt(g.order, indexOf(g.order, anchor), n)]
insertAfter(g, n, anchor) ==
  [g EXCEPT !.order = insertAt(g.order, indexOf(g.order, anchor) + 1, n)]

\* Node::destroy: every output must be unused; the node gives up its inputs,
\* leaves the node list and is freed.
destroy(g, n) ==
  IF hasUses(g, n) THEN fail(g, "JIT_ASSERT(outputs_[i]->uses().empty())")
  ELSE
    LET g1 == removeAllInputs(g, n)
        gone == {<<n, j>> : j \in 0..(g.nodes[n].nout - 1)}
    IN  [g1 EXCEPT
          !.nodes = [m \in DOMAIN g1.nodes \ {n} |-> g1.nodes[m]],
          !.uses = [v \in DOMAIN g1.uses \ gone |-> g1.uses[v]],
          !.types = [v \in DOMAIN g1.types \ gone |-> g1.types[v]],
          !.order = SelectSeq(g1.order, LAMBDA m : m # n)]

\* graph_node_list: begin(), and ++ from the node (or sentinel) cur.
begin(g) == IF g.order = <<>> THEN output_ ELSE g.order[1]
next(g, cur) ==
  IF cur = output_ THEN begin(g)
  ELSE IF indexOf(g.order, cur) = Len(g.order) THEN output_
  ELSE g.order[indexOf(g.order, cur) + 1]
prev(g, cur) ==
  IF indexOf(g.order, cur) = 1 THEN output_ ELSE g.order[indexOf(g.order, cur) - 1]

\* A loop body's outcome: the graph, and where the iterator stands before ++.
Visited(g, n) == [graph |-> g, cur |-> n]

\* graph_node_list_iterator::destroyCurrent: step back, then destroy.
destroyCurrent(g, n) == [graph |-> destroy(g, n), cur |-> prev(g, n)]

(***************************************************************************)
(* The passes, peephole.cpp lines 117-391: each operator is the body of    *)
(* one pass's loop for the node n the iterator stands on.                  *)
(***************************************************************************)
\* fuseBroadcast never emitting the axis attribute.
fuseBroadcastBody_NoAxis(g, n) ==
  IF ~isBroadcasting(kind(g, n)) THEN Visited(g, n)
  ELSE IF hasAttribute(g, n, "broadcast") /\ attr(g, n, "broadcast") # 0 THEN Visited(g, n)
  ELSE IF hasAttribute(g, n, "axis")
       THEN Visited(fail(g, "JIT_ASSERT(!n->hasAttribute(attr::axis))"), n)
  ELSE
    LET input_index == Len(inputs(g, n)) - 1
        expanded_rhs == node(At(inputs(g, n), input_index))
    IN  IF kind(g, expanded_rhs) # "expand" THEN Visited(g, n)
        ELSE
          LET unexpanded_rhs == At(inputs(g, expanded_rhs), 0)
          IN  IF ~isTensor(g, unexpanded_rhs) THEN Visited(g, n)
              ELSE IF ~isTensor(g, <<expanded_rhs, 0>>)
                   THEN Visited(fail(g, "expect<TensorType>: JIT_ASSERT(T::Kind == kind())"), n)
              ELSE
                LET r == fusibleExpandTo(sizes(g, unexpanded_rhs), sizes(g, <<expanded_rhs, 0>>))
                    g1 == replaceInput(g, n, input_index, unexpanded_rhs)
                    g2 == setAttr(g1, n, "broadcast", 1)
                    g3 == g2
                    g4 == IF ~hasUses(g3, expanded_rhs) THEN destroy(g3, expanded_rhs) ELSE g3
                IN  IF ~r.fusible THEN Visited(g, n) ELSE Visited(g4, n)

fuseBroadcastBody(g, n) ==
  IF ~isBroadcasting(kind(g, n)) THEN Visited(g, n)
  ELSE IF hasAttribute(g, n, "broadcast") /\ attr(g, n, "broadcast") # 0 THEN Visited(g, n)
  ELSE IF hasAttribute(g, n, "axis")
       THEN Visited(fail(g, "JIT_ASSERT(!n->hasAttribute(attr::axis))"), n)
  ELSE
    LET input_index == Len(inputs(g, n)) - 1
        expanded_rhs == node(At(inputs(g, n), input_index))
    IN  IF kind(g, expanded_rhs) # "expand" THEN Visited(g, n)
        ELSE
          LET unexpanded_rhs == At(inputs(g, expanded_rhs), 0)
          IN  IF ~isTensor(g, unexpanded_rhs) THEN Visited(g, n)
              ELSE IF ~isTensor(g, <<expanded_rhs, 0>>)
                   THEN Visited(fail(g, "expect<TensorType>: JIT_ASSERT(T::Kind == kind())"), n)
              ELSE
                LET r == fusibleExpandTo(sizes(g, unexpanded_rhs), sizes(g, <<expanded_rhs, 0>>))
                    g1 == replaceInput(g, n, input_index, unexpanded_rhs)
                    g2 == setAttr(g1, n, "broadcast", 1)
                    g3 == IF r.hasAxis THEN setAttr(g2, n, "axis", r.axis) ELSE g2
                    g4 == IF ~hasUses(g3, expanded_rhs) THEN destroy(g3, expanded_rhs) ELSE g3
                IN  IF ~r.fusible THEN Visited(g, n) ELSE Visited(g4, n)

\* fuseConsecutiveTransposes leaving the bypassed inner transpose in the graph.
fuseConsecutiveTransposesBody_KeepInner(g, n) ==
  IF kind(g, n) = "Transpose" /\ kind(g, node(At(inputs(g, n), 0))) = "Transpose"
  THEN
    LET origInput == At(inputs(g, n), 0)
        composed == composeTransposes(attr(g, node(origInput), "perm"), attr(g, n, "perm"))
        g1 == setAttr(g, n, "perm", composed.value)
        g2 == replaceInput(g1, n, 0, At(inputs(g1, node(origInput)), 0))
    IN  IF composed.status # "returned"
        THEN Visited(fail(g, "composeTransposes: " \o composed.status), n)
        ELSE Visited(g2, n)
  ELSE Visited(g, n)

\* fuseConsecutiveTransposes composing the two permutations in the other order.
fuseConsecutiveTransposesBody_Swapped(g, n) ==
  IF kind(g, n) = "Transpose" /\ kind(g, node(At(inputs(g, n), 0))) = "Transpose"
  THEN
    LET origInput == At(inputs(g, n), 0)
        composed == composeTransposes(attr(g, n, "perm"), attr(g, node(origInput), "perm"))
        g1 == setAttr(g, n, "perm", composed.value)
        g2 == replaceInput(g1, n, 0, At(inputs(g1, node(origInput)), 0))
        g3 == IF Len(uses(g2, origInput)) = 0 THEN destroy(g2, node(origInput)) ELSE g2
    IN  IF composed.status # "returned"
        THEN Visited(fail(g, "composeTransposes: " \o composed.status), n)
        ELSE Visited(g3, n)
  ELSE Visited(g, n)

fuseConsecutiveTransposesBody(g, n) ==
  IF kind(g, n) = "Transpose" /\ kind(g, node(At(inputs(g, n), 0))) = "Transpose"
  THEN
    LET origInput == At(inputs(g, n), 0)
        composed == composeTransposes(attr(g, node(origInput), "perm"), attr(g, n, "perm"))
        g1 == setAttr(g, n, "perm", composed.value)
        g2 == replaceInput(g1, n, 0, At(inputs(g1, node(origInput)), 0))
        g3 == IF Len(uses(g2, origInput)) = 0 THEN destroy(g2, node(origInput)) ELSE g2
    IN  IF composed.status # "returned"
        THEN Visited(fail(g, "composeTransposes: " \o composed.status), n)
        ELSE Visited(g3, n)
  ELSE Visited(g, n)

\* eliminateNopTranspose with an iterator that is left on the successor of the
\* destroyed node, so that ++ steps over it.
eliminateNopTransposeBody_SkipNext(g, n) ==
  IF kind(g, n) = "Transpose" /\ isNopTranspose(attr(g, n, "perm"))
  THEN
    LET g1 == nodeReplaceAllUsesWith(g, n, node(At(inputs(g, n), 0)))
    IN  IF g1.error # "none" THEN Visited(g1, n)
        ELSE IF next(g1, n) = output_ THEN destroyCurrent(g1, n)
        ELSE [graph |-> destroy(g1, n), cur |-> next(g1, n)]
  ELSE Visited(g, n)

eliminateNopTransposeBody(g, n) ==
  IF kind(g, n) = "Transpose" /\ isNopTranspose(attr(g, n, "perm"))
  THEN
    LET g1 == nodeReplaceAllUsesWith(g, n, node(At(inputs(g, n), 0)))
    IN  IF g1.error # "none" THEN Visited(g1, n) ELSE destroyCurrent(g1, n)
  ELSE Visited(g, n)

\* fuseTransposeIntoGemm setting the flag to 1 whatever it was.
fuseTransposeIntoGemmOperand_SetFlag(g, n, i) ==
  LET inp == At(inputs(g, n), i)
      trans == IF i = 0 THEN "transA" ELSE "transB"
      g1 == replaceInput(g, n, i, At(inputs(g, node(inp)), 0))
      g2 == setAttr(g1, n, trans, 1)
      g3 == IF Len(uses(g2, inp)) = 0 THEN destroy(g2, node(inp)) ELSE g2
  IN  IF kind(g, node(inp)) = "Transpose" /\ attr(g, node(inp), "perm") = <<1, 0>>
      THEN g3
      ELSE g

\* fuseTransposeIntoGemm leaving the bypassed transpose in the graph.
fuseTransposeIntoGemmOperand_KeepTranspose(g, n, i) ==
  LET inp == At(inputs(g, n), i)
      trans == IF i = 0 THEN "transA" ELSE "transB"
      g1 == replaceInput(g, n, i, At(inputs(g, node(inp)), 0))
      g2 == setAttr(g1, n, trans,
                    IF hasAttribute(g1, n, trans)
                    THEN (IF attr(g1, n, trans) # 0 THEN 0 ELSE 1)
                    ELSE 1)
  IN  IF kind(g, node(inp)) = "Transpose" /\ attr(g, node(inp), "perm") = <<1, 0>>
      THEN g2
      ELSE g

\* The body of "for (size_t i : {0,1})" of fuseTransposeIntoGemm.
fuseTransposeIntoGemmOperand(g, n, i) ==
  LET inp == At(inputs(g, n), i)
      trans == IF i = 0 THEN "transA" ELSE "transB"
      g1 == replaceInput(g, n, i, At(inputs(g, node(inp)), 0))
      g2 == setAttr(g1, n, trans,
                    IF hasAttribute(g1, n, trans)
                    THEN (IF attr(g1, n, trans) # 0 THEN 0 ELSE 1)
                    ELSE 1)
      g3 == IF Len(uses(g2, inp)) = 0 THEN destroy(g2, node(inp)) ELSE g2
  IN  IF kind(g, node(inp)) = "Transpose" /\ attr(g, node(inp), "perm") = <<1, 0>>
      THEN g3
      ELSE g

fuseTransposeIntoGemmBody(g, n) ==
  IF kind(g, n) = "Gemm"
  THEN LET g0 == fuseTransposeIntoGemmOperand(g, n, 0)
       IN  \* a failed assertion at i = 0 ends the pass before i = 1
           IF g0.error # "none" THEN Visited(g0, n)
           ELSE Visited(fuseTransposeIntoGemmOperand(g0, n, 1), n)
  ELSE Visited(g, n)

\* pushPackingPastRnn going by the first consumer, however many there are.
pushPackingPastRnnBody_AnyConsumers(g, n) ==
  IF kind(g, n) # "PackPadded" THEN Visited(g, n)
  ELSE IF Len(uses(g, <<n, 0>>)) = 0 THEN Visited(g, n)
  ELSE
    LET rnn == At(uses(g, <<n, 0>>), 0)[1]
    IN  IF ~isRNN(kind(g, rnn)) THEN Visited(g, n)
        ELSE
          LET \* remove PackPadded from in front of the RNN
              g1 == replaceAllUsesWith(g, <<n, 0>>, At(inputs(g, n), 0))
              g2 == replaceFirstUseWith(g1, <<n, 1>>, At(inputs(g1, n), 1))
              \* and insert new PackPadded after the RNN
              newPackPadded == g2.next
              g3 == create(g2, "PackPadded", 2)
              g4 == insertAfter(g3, newPackPadded, rnn)
              \* make things consume from the new PackPadded
              g5 == replaceAllUsesWith(g4, <<rnn, 0>>, <<newPackPadded, 0>>)
              g6 == replaceAllUsesWith(g5, <<n, 1>>, <<newPackPadded, 1>>)
              \* setup the new PackPadded's inputs
              g7 == addInput(g6, newPackPadded, <<rnn, 0>>)
              g8 == addInput(g7, newPackPadded, At(inputs(g7, n), 1))
          IN  IF g2.error # "none" THEN Visited(g2, n) ELSE destroyCurrent(g8, n)

pushPackingPastRnnBody(g, n) ==
  IF kind(g, n) # "PackPadded" THEN Visited(g, n)
  ELSE IF Len(uses(g, <<n, 0>>)) # 1 THEN Visited(g, n)
  ELSE
    LET rnn == At(uses(g, <<n, 0>>), 0)[1]
    IN  IF ~isRNN(kind(g, rnn)) THEN Visited(g, n)
        ELSE
          LET \* remove PackPadded from in front of the RNN
              g1 == replaceAllUsesWith(g, <<n, 0>>, At(inputs(g, n), 0))
              g2 == replaceFirstUseWith(g1, <<n, 1>>, At(inputs(g1, n), 1))
              \* and insert new PackPadded after the RNN
              newPackPadded == g2.next
              g3 == create(g2, "PackPadded", 2)
              g4 == insertAfter(g3, newPackPadded, rnn)
              \* make things consume from the new PackPadded
              g5 == replaceAllUsesWith(g4, <<rnn, 0>>, <<newPackPadded, 0>>)
              g6 == replaceAllUsesWith(g5, <<n, 1>>, <<newPackPadded, 1>>)
              \* setup the new PackPadded's inputs
              g7 == addInput(g6, newPackPadded, <<rnn, 0>>)
              g8 == addInput(g7, newPackPadded, At(inputs(g7, n), 1))
          IN  IF g2.error # "none" THEN Visited(g2, n) ELSE destroyCurrent(g8, n)

\* removeNopPacking leaving the consumers of the unpack node's second output.
removeNopPackingBody_KeepLengthUses(g, n) ==
  IF kind(g, n) # "PadPacked" THEN Visited(g, n)
  ELSE
    LET input == node(At(inputs(g, n), 0))
    IN  IF kind(g, input) # "PackPadded" THEN Visited(g, n)
        ELSE IF <<input, 0>> # At(inputs(g, n), 0) THEN Visited(g, n)
        ELSE IF <<input, 1>> # At(inputs(g, n), 1) THEN Visited(g, n)
        ELSE
          LET g1 == replaceAllUsesWith(g, <<n, 0>>, At(inputs(g, input), 0))
              g3 == removeAllInputs(g1, n)
          IN  destroyCurrent(g3, n)

\* removeNopPacking destroying the pack node too once it is unused.
removeNopPackingBody_DestroyPack(g, n) ==
  IF kind(g, n) # "PadPacked" THEN Visited(g, n)
  ELSE
    LET input == node(At(inputs(g, n), 0))
    IN  IF kind(g, input) # "PackPadded" THEN Visited(g, n)
        ELSE IF <<input, 0>> # At(inputs(g, n), 0) THEN Visited(g, n)
        ELSE IF <<input, 1>> # At(inputs(g, n), 1) THEN Visited(g, n)
        ELSE
          LET g1 == replaceAllUsesWith(g, <<n, 0>>, At(inputs(g, input), 0))
              g2 == replaceAllUsesWith(g1, <<n, 1>>, At(inputs(g1, input), 1))
              g3 == removeAllInputs(g2, n)
              r == destroyCurrent(g3, n)
          IN  IF hasUses(r.graph, input) THEN r
              ELSE [graph |-> destroy(r.graph, input),
                    cur |-> IF r.cur = input THEN prev(r.graph, input) ELSE r.cur]

removeNopPackingBody(g, n) ==
  IF kind(g, n) # "PadPacked" THEN Visited(g, n)
  ELSE
    LET input == node(At(inputs(g, n), 0))
    IN  IF kind(g, input) # "PackPadded" THEN Visited(g, n)
        ELSE IF <<input, 0>> # At(inputs(g, n), 0) THEN Visited(g, n)
        ELSE IF <<input, 1>> # At(inputs(g, n), 1) THEN Visited(g, n)
        ELSE
          LET g1 == replaceAllUsesWith(g, <<n, 0>>, At(inputs(g, input), 0))
              g2 == replaceAllUsesWith(g1, <<n, 1>>, At(inputs(g1, input), 1))
              g3 == removeAllInputs(g2, n)
          IN  destroyCurrent(g3, n)

\* create + insertBefore(n) + the node's inputs and attribute, as
\* fixDefaultRNNState does for each node of the subgraph it synthesizes.
RECURSIVE addInputs(_, _, _)
addInputs(g, n, vs) ==
  IF vs = <<>> THEN g ELSE addInputs(addInput(g, n, Head(vs)), n, Tail(vs))

createBefore(g, n, k, ins, attrs) ==
  LET m == g.next
      g1 == insertBefore(create(g, k, 1), m, n)
      g2 == addInputs(g1, m, ins)
  IN  [g2 EXCEPT !.nodes[m].attrs = attrs]

\* fixDefaultRNNState not recognizing a Slice of a Constant.
fixDefaultRNNState_ConstantOnly(g, n, input_index) ==
  LET initial_state == At(inputs(g, n), input_index)
      needsFixing ==
        kind(g, node(initial_state)) = "Constant"
      shape_of_input == g.next
      gather_indices == g.next + 1
      batch_size == g.next + 2
      unsqueezed_batch_size == g.next + 3
      hidden_size == g.next + 4
      num_directions == g.next + 5
      unsqueezed_num_directions == g.next + 6
      concated_dims == g.next + 7
      constant_fill == g.next + 8
      g1 == createBefore(g, n, "Shape", <<At(inputs(g, n), 0)>>, <<>>)
      g2 == createBefore(g1, n, "Constant", <<>>, [value |-> 1])
      g3 == createBefore(g2, n, "Gather", <<<<shape_of_input, 0>>, <<gather_indices, 0>>>>, <<>>)
      g4 == createBefore(g3, n, "Unsqueeze", <<<<batch_size, 0>>>>, [axes |-> <<0>>])
      g5 == createBefore(g4, n, "Constant", <<>>, [value |-> attr(g, n, "hidden_size")])
      g6 == createBefore(g5, n, "Constant", <<>>,
              [value |-> IF hasAttribute(g, n, "direction") /\ attr(g, n, "direction") = "bidirectional"
                         THEN 2 ELSE 1])
      g7 == createBefore(g6, n, "Unsqueeze", <<<<num_directions, 0>>>>, [axes |-> <<0>>])
      g8 == createBefore(g7, n, "Concat",
              << <<unsqueezed_num_directions, 0>>, <<unsqueezed_batch_size, 0>>, <<hidden_size, 0>> >>,
              [axis |-> 0])
      g9 == createBefore(g8, n, "ConstantFill", <<<<concated_dims, 0>>>>, [input_as_shape |-> 1])
      g10 == replaceInput(g9, n, input_index, <<constant_fill, 0>>)
      g11 == IF Len(uses(g10, initial_state)) = 0 THEN destroy(g10, node(initial_state)) ELSE g10
  IN  IF ~needsFixing THEN g ELSE g11

fixDefaultRNNState(g, n, input_index) ==
  LET initial_state == At(inputs(g, n), input_index)
      needsFixing ==
        \/ kind(g, node(initial_state)) = "Constant"
        \/ /\ kind(g, node(initial_state)) = "Slice"
           /\ kind(g, node(At(inputs(g, node(initial_state)), 0))) = "Constant"
      shape_of_input == g.next
      gather_indices == g.next + 1
      batch_size == g.next + 2
      unsqueezed_batch_size == g.next + 3
      hidden_size == g.next + 4
      num_directions == g.next + 5
      unsqueezed_num_directions == g.next + 6
      concated_dims == g.next + 7
      constant_fill == g.next + 8
      g1 == createBefore(g, n, "Shape", <<At(inputs(g, n), 0)>>, <<>>)
      g2 == createBefore(g1, n, "Constant", <<>>, [value |-> 1])
      g3 == createBefore(g2, n, "Gather", <<<<shape_of_input, 0>>, <<gather_indices, 0>>>>, <<>>)
      g4 == createBefore(g3, n, "Unsqueeze", <<<<batch_size, 0>>>>, [axes |-> <<0>>])
      g5 == createBefore(g4, n, "Constant", <<>>, [value |-> attr(g, n, "hidden_size")])
      g6 == createBefore(g5, n, "Constant", <<>>,
              [value |-> IF hasAttribute(g, n, "direction") /\ attr(g, n, "direction") = "bidirectional"
                         THEN 2 ELSE 1])
      g7 == createBefore(g6, n, "Unsqueeze", <<<<num_directions, 0>>>>, [axes |-> <<0>>])
      g8 == createBefore(g7, n, "Concat",
              << <<unsqueezed_num_directions, 0>>, <<unsqueezed_batch_size, 0>>, <<hidden_size, 0>> >>,
              [axis |-> 0])
      g9 == createBefore(g8, n, "ConstantFill", <<<<concated_dims, 0>>>>, [input_as_shape |-> 1])
      g10 == replaceInput(g9, n, input_index, <<constant_fill, 0>>)
      g11 == IF Len(uses(g10, initial_state)) = 0 THEN destroy(g10, node(initial_state)) ELSE g10
  IN  IF ~needsFixing THEN g ELSE g11

fixDefaultRnnHiddenStateBody(g, n) ==
  IF ~isRNN(kind(g, n)) THEN Visited(g, n)
  ELSE IF Len(inputs(g, n)) < 6 THEN Visited(g, n)
  ELSE Visited(fixDefaultRNNState(g, n, 5), n)

fixDefaultLstmCellStateBody(g, n) ==
  IF kind(g, n) # "LSTM" THEN Visited(g, n)
  ELSE IF Len(inputs(g, n)) < 7 THEN Visited(g, n)
  ELSE Visited(fixDefaultRNNState(g, n, 6), n)

(***************************************************************************)
(* PeepholeOptimizeONNX, lines 410-422: the eight passes in order.  One    *)
(* action is one iteration of the running pass's loop; PassReturns is the  *)
(* loop's exit and the call of the next pass.  A failed assertion throws   *)
(* out of PeepholeOptimizeONNX and leaves the graph as it stands.          *)
(***************************************************************************)
Passes == << "pushPackingPastRnn", "removeNopPacking", "fixDefaultRnnHiddenState",
             "fixDefaultLstmCellState", "fuseBroadcast", "fuseConsecutiveTransposes",
             "eliminateNopTranspose", "fuseTransposeIntoGemm" >>

passIndex(p) == CHOOSE i \in 1..Len(Passes) : Passes[i] = p
passAfter(p) == IF passIndex(p) = Len(Passes) THEN "done" ELSE Passes[passIndex(p) + 1]

\* What an iteration leaves: the body's graph, and the iterator after ++, or
\* the failure.
usedNodes(g) == {n \in DOMAIN g.nodes : hasUses(g, n)}

Advance(r) ==
  /\ graph' = r.graph
  /\ used' = used \cup usedNodes(r.graph)
  /\ before' = before
  /\ IF r.graph.error # "none"
     THEN pc' = "failed" /\ it' = it
     ELSE pc' = pc /\ it' = next(r.graph, r.cur)
  /\ UNCHANGED <<call, ret>>

pushPackingPastRnn ==
  /\ pc = "pushPackingPastRnn"
  /\ it # output_
  /\ Advance(pushPackingPastRnnBody(graph, it))

removeNopPacking ==
  /\ pc = "removeNopPacking"
  /\ it # output_
  /\ Advance(removeNopPackingBody(graph, it))

fixDefaultRnnHiddenState ==
  /\ pc = "fixDefaultRnnHiddenState"
  /\ it # output_
  /\ Advance(fixDefaultRnnHiddenStateBody(graph, it))

fixDefaultLstmCellState ==
  /\ pc = "fixDefaultLstmCellState"
  /\ it # output_
  /\ Advance(fixDefaultLstmCellStateBody(graph, it))

fuseBroadcast ==
  /\ pc = "fuseBroadcast"
  /\ it # output_
  /\ Advance(fuseBroadcastBody(graph, it))

fuseConsecutiveTransposes ==
  /\ pc = "fuseConsecutiveTransposes"
  /\ it # output_
  /\ Advance(fuseConsecutiveTransposesBody(graph, it))

eliminateNopTranspose ==
  /\ pc = "eliminateNopTranspose"
  /\ it # output_
  /\ Advance(eliminateNopTransposeBody(graph, it))

fuseTransposeIntoGemm ==
  /\ pc = "fuseTransposeIntoGemm"
  /\ it # output_
  /\ Advance(fuseTransposeIntoGemmBody(graph, it))

PassReturns ==
  /\ pc \in {Passes[i] : i \in 1..Len(Passes)}
  /\ it = output_
  /\ pc' = passAfter(pc)
  /\ it' = IF passAfter(pc) = "done" THEN output_ ELSE begin(graph)
  /\ before' = graph
  /\ UNCHANGED <<graph, used, call, ret>>

Next ==
  \/ pushPackingPastRnn
  \/ removeNopPacking
  \/ fixDefaultRnnHiddenState
  \/ fixDefaultLstmCellState
  \/ fuseBroadcast
  \/ fuseConsecutiveTransposes
  \/ eliminateNopTranspose
  \/ fuseTransposeIntoGemm
  \/ PassReturns

(***************************************************************************)
(* The graphs handed to PeepholeOptimizeONNX.  A graph is built the way    *)
(* the tracer builds it: nodes appended in order, each input registered    *)
(* with addInput (so a use list is in creation order), the Return node's   *)
(* inputs last.  The node at position j of the list is node j + 1.         *)
(***************************************************************************)
Op(k, ins, num_outputs, attrs) == [kind |-> k, inputs |-> ins, nout |-> num_outputs, attrs |-> attrs]

idAt(j) == j + 1

RECURSIVE wire(_, _, _)
wire(g, ops, j) ==
  IF j > Len(ops) THEN g ELSE wire(addInputs(g, idAt(j), ops[j].inputs), ops, j + 1)

MkGraph(num_inputs, ops, outs, types) ==
  LET ids == {idAt(j) : j \in 1..Len(ops)}
      bare == [n \in {input_, output_} \cup ids |->
                 IF n = input_ THEN Op("Param", <<>>, num_inputs, <<>>)
                 ELSE IF n = output_ THEN Op("Return", <<>>, 0, <<>>)
                 ELSE [ops[n - 1] EXCEPT !.inputs = <<>>]]
      values == UNION { {<<n, j>> : j \in 0..(bare[n].nout - 1)} : n \in DOMAIN bare }
      g0 == [nodes |-> bare,
             order |-> [j \in 1..Len(ops) |-> idAt(j)],
             uses |-> [v \in values |-> <<>>],
             types |-> types,
             next |-> Len(ops) + 2,
             error |-> "none"]
  IN  addInputs(wire(g0, ops, 1), output_, outs)

NoTypes == <<>>
NoAttrs == <<>>

\* The permutations transposes of the graphs carry: of rank 2 both, of rank
\* 3 two transpositions that do not commute.
GraphPerms(r) ==
  IF r = 2 THEN {<<0, 1>>, <<1, 0>>} ELSE {<<1, 0, 2>>, <<0, 2, 1>>}

\* Where a chain of transposes starts: the input of a graph with one input,
\* the second input of a graph with two, the output of a node with one
\* output, or the second output of a node with two.
Sources == {"input", "input1of2", "op", "op1of2"}
sourceInputs(src) == IF src = "input1of2" THEN 2 ELSE 1
sourceOps(src) ==
  IF src = "op" THEN <<Op("Relu", <<<<input_, 0>>>>, 1, NoAttrs)>>
  ELSE IF src = "op1of2" THEN <<Op("Split", <<<<input_, 0>>>>, 2, NoAttrs)>>
  ELSE <<>>
sourceValue(src) ==
  CASE src = "input" -> <<input_, 0>>
    [] src = "input1of2" -> <<input_, 1>>
    [] src = "op" -> <<idAt(1), 0>>
    [] src = "op1of2" -> <<idAt(1), 1>>

\* k transposes after the source; transpose j reads the source (from[j] = 0)
\* or the transpose before it (from[j] = j - 1); the graph returns the last
\* transpose and, with also > 0, transpose `also` too.
TransposeGraph(src, k, from, perms, also) ==
  LET base == Len(sourceOps(src))
      T(j) == <<idAt(base + j), 0>>
      ops == sourceOps(src) \o
             [j \in 1..k |-> Op("Transpose",
                                <<IF from[j] = 0 THEN sourceValue(src) ELSE T(from[j])>>,
                                1, [perm |-> perms[j]])]
  IN  MkGraph(sourceInputs(src), ops,
              IF also = 0 THEN <<T(k)>> ELSE <<T(k), T(also)>>, NoTypes)

TransposeGraphs ==
  UNION { UNION { { TransposeGraph(src, k, from, perms, also) :
                      src \in Sources,
                      from \in {f \in [1..k -> 0..(k - 1)] : \A j \in 1..k : f[j] \in {0, j - 1}},
                      perms \in [1..k -> GraphPerms(r)],
                      also \in {0, k - 1} } :
                  k \in 1..MaxTransposes } :
          r \in {2, 3} }

\* A graph written with names: a value is <<name of its node, offset>>, "in"
\* naming the Param node.
Named(name, k, ins, num_outputs, attrs) ==
  [name |-> name, kind |-> k, inputs |-> ins, nout |-> num_outputs, attrs |-> attrs]

resolve(named, r) ==
  <<IF r[1] = "in" THEN input_ ELSE idAt(CHOOSE j \in 1..Len(named) : named[j].name = r[1]), r[2]>>

resolveAll(named, rs) == [i \in 1..Len(rs) |-> resolve(named, rs[i])]

\* typed: a set of <<value, sizes>> pairs, the values that carry a TensorType.
MkNamedGraph(num_inputs, named, outs, typed) ==
  MkGraph(num_inputs,
          [j \in 1..Len(named) |->
             Op(named[j].kind, resolveAll(named, named[j].inputs), named[j].nout, named[j].attrs)],
          resolveAll(named, outs),
          [v \in {resolve(named, t[1]) : t \in typed} |->
             (CHOOSE t \in typed : resolve(named, t[1]) = v)[2]])

If(c, seq) == IF c THEN seq ELSE <<>>

\* Packed sequences: pack(x, len) -> (p, l); `layers` stacked nodes of kind k,
\* layer 1 reading p and the others the layer before, each reading l as its
\* sequence lengths (input 4); another reader of l before or after layer 1;
\* an unpack of the last layer's output and l; the graph returns the unpacked
\* (or the last layer's) values when `returned`, and p too when pAlso.
LayerName == <<"rnn1", "rnn2", "rnn3", "rnn4">>

PackingGraph(k, layers, lenUser, unpack, pAlso, returned) ==
  LET data(j) == IF j = 1 THEN <<"pack", 0>> ELSE <<LayerName[j - 1], 0>>
      layer(j) == Named(LayerName[j], k,
                        <<data(j), <<"in", 2>>, <<"in", 2>>, <<"in", 2>>, <<"pack", 1>>>>,
                        2, [hidden_size |-> 4])
      reader == <<Named("reader", "Relu", <<<<"pack", 1>>>>, 1, NoAttrs)>>
      RECURSIVE stack(_)
      stack(j) ==
        IF j > layers THEN <<>>
        ELSE <<layer(j)>> \o If(j = 1 /\ lenUser = "after", reader) \o stack(j + 1)
      named == <<Named("pack", "PackPadded", <<<<"in", 0>>, <<"in", 1>>>>, 2, NoAttrs)>>
               \o If(lenUser = "before" \/ (lenUser = "after" /\ layers = 0), reader)
               \o stack(1)
               \o If(unpack, <<Named("unpack", "PadPacked", <<data(layers + 1), <<"pack", 1>>>>, 2, NoAttrs)>>)
      outs == If(returned /\ unpack, <<<<"unpack", 0>>, <<"unpack", 1>>>>)
              \o If(returned /\ ~unpack, <<data(layers + 1)>>)
              \o If(pAlso, <<<<"pack", 0>>>>)
              \o If(lenUser # "none", <<<<"reader", 0>>>>)
  IN  MkNamedGraph(3, named, outs, {})

PackingGraphs ==
  { PackingGraph(k, layers, lenUser, unpack, pAlso, returned) :
      k \in {"RNN", "LSTM", "GRU", "Relu"},
      layers \in 0..MaxLayers,
      lenUser \in {"none", "before", "after"},
      unpack \in BOOLEAN, pAlso \in BOOLEAN, returned \in BOOLEAN }

\* Broadcasting: e = expand(y); n = k(x, e), or Gemm(x, w, e); the attributes
\* n starts with; whether y and e carry a TensorType, and the sizes; whether
\* the graph returns e too.
ShapePairs == { <<<<3>>, <<2, 3>>>>, <<<<3>>, <<3, 4>>>>, <<<<2>>, <<3, 4>>>>,
                <<<<1, 3>>, <<2, 3>>>>, <<<<2, 3>>, <<3>>>> }

BroadcastGraph(k, attrs, fromKnown, toKnown, shapes, eAlso) ==
  MkNamedGraph(3,
    << Named("e", "expand", <<<<"in", 1>>>>, 1, NoAttrs),
       Named("n", k, IF k = "Gemm" THEN <<<<"in", 0>>, <<"in", 2>>, <<"e", 0>>>>
                     ELSE <<<<"in", 0>>, <<"e", 0>>>>, 1, attrs) >>,
    <<<<"n", 0>>>> \o If(eAlso, <<<<"e", 0>>>>),
    (IF fromKnown THEN {<<<<"in", 1>>, shapes[1]>>} ELSE {})
      \cup (IF toKnown THEN {<<<<"e", 0>>, shapes[2]>>} ELSE {}))

BroadcastAttrs ==
  { NoAttrs, [broadcast |-> 0], [broadcast |-> 1], [axis |-> 0],
    [broadcast |-> 0, axis |-> 0], [broadcast |-> 1, axis |-> 0] }

BroadcastGraphs ==
  { BroadcastGraph(k, attrs, fromKnown, toKnown, shapes, eAlso) :
      k \in {"Add", "Div", "Mul", "Pow", "Sub", "Gemm", "Relu"},
      attrs \in BroadcastAttrs,
      fromKnown \in BOOLEAN, toKnown \in BOOLEAN,
      shapes \in ShapePairs, eAlso \in BOOLEAN }

\* Gemm: ta = Transpose(a), tb = Transpose(a or ta), gemm(i0, i1, c) with each
\* of i0, i1 one of a, ta, tb; the transA / transB attributes gemm starts
\* with; whether the graph returns ta (also = 1) or tb (also = 2) too.
GemmOperands == { <<"in", 0>>, <<"ta", 0>>, <<"tb", 0>> }
GemmAttrs ==
  { NoAttrs, [transA |-> 0], [transA |-> 1], [transB |-> 0], [transB |-> 1],
    [transA |-> 1, transB |-> 0], [transA |-> 0, transB |-> 1], [transA |-> 1, transB |-> 1] }

GemmGraph(pa, pb, tbIn, i0, i1, attrs, also) ==
  MkNamedGraph(2,
    << Named("ta", "Transpose", <<<<"in", 0>>>>, 1, [perm |-> pa]),
       Named("tb", "Transpose", <<tbIn>>, 1, [perm |-> pb]),
       Named("gemm", "Gemm", <<i0, i1, <<"in", 1>>>>, 1, attrs) >>,
    <<<<"gemm", 0>>>> \o If(also = 1, <<<<"ta", 0>>>>) \o If(also = 2, <<<<"tb", 0>>>>),
    {})

GemmGraphs ==
  { GemmGraph(pa, pb, tbIn, i0, i1, attrs, also) :
      pa \in GraphPerms(2), pb \in GraphPerms(2),
      tbIn \in { <<"in", 0>>, <<"ta", 0>> },
      i0 \in GemmOperands, i1 \in GemmOperands,
      attrs \in GemmAttrs, also \in 0..2 }

\* Default states: rnn = k(x, w, w, w, len [, h0 [, c0]]); h0 and c0 are a
\* graph input, a Constant, or a Slice of that Constant; whether the graph
\* returns the Constant too.
StateValue(s) ==
  CASE s = "input" -> <<"in", 3>>
    [] s = "const" -> <<"const", 0>>
    [] s = "slice" -> <<"slice", 0>>

StateGraph(k, h0, c0, attrs, constAlso) ==
  LET states == {h0, c0}
      named ==
        If("const" \in states \/ "slice" \in states \/ constAlso,
           <<Named("const", "Constant", <<>>, 1, [value |-> 0])>>)
        \o If("slice" \in states, <<Named("slice", "Slice", <<<<"const", 0>>>>, 1, NoAttrs)>>)
        \o <<Named("rnn", k,
                   <<<<"in", 0>>, <<"in", 1>>, <<"in", 1>>, <<"in", 1>>, <<"in", 2>>>>
                     \o If(h0 # "absent", <<StateValue(h0)>>)
                     \o If(c0 # "absent", <<StateValue(c0)>>),
                   2, attrs)>>
  IN  MkNamedGraph(4, named, <<<<"rnn", 0>>>> \o If(constAlso, <<<<"const", 0>>>>), {})

StateGraphs ==
  { StateGraph(k, hc[1], hc[2], attrs, constAlso) :
      k \in {"RNN", "LSTM", "GRU"},
      hc \in { <<h0, c0>> \in {"absent", "input", "const", "slice"} \X {"absent", "input", "const", "slice"} :
                 h0 = "absent" => c0 = "absent" },
      attrs \in { [hidden_size |-> 4], [hidden_size |-> 4, direction |-> "bidirectional"] },
      constAlso \in BOOLEAN }

Graphs == TransposeGraphs \cup PackingGraphs \cup BroadcastGraphs \cup GemmGraphs \cup StateGraphs

InitGraph(graphs) ==
  /\ graph \in graphs
  /\ pc = Passes[1]
  /\ it = begin(graph)
  /\ before = graph
  /\ used = usedNodes(graph)
  /\ call = [fn |-> "none"]
  /\ ret = [status |-> "pending"]

Init == InitGraph(Graphs)

Spec == Init /\ [][Next]_vars

(***************************************************************************)
(* Evaluation of the pure helpers on bounded inputs.                       *)
(***************************************************************************)
NoCall == [fn |-> "none"]
NoRet == [status |-> "pending"]

PermPairs == UNION { { <<p1, p2>> : p1 \in Perms(n), p2 \in Perms(n) } : n \in 1..MaxPermLen }

Shapes == UNION { [1..k -> 1..MaxDim] : k \in 0..MaxShapeRank }

IdleGraph == MkGraph(0, <<>>, <<>>, NoTypes)

Idle == graph = IdleGraph /\ pc = "idle" /\ it = output_ /\ before = IdleGraph /\ used = {}

InitCompose ==
  /\ Idle
  /\ \E pp \in PermPairs : call = [fn |-> "composeTransposes", t1 |-> pp[1], t2 |-> pp[2]]
  /\ ret = NoRet

CallComposeTransposes ==
  /\ call.fn = "composeTransposes"
  /\ ret = NoRet
  /\ ret' = composeTransposes(call.t1, call.t2)
  /\ UNCHANGED <<call, graph, pc, it, before, used>>

NextCompose == CallComposeTransposes

SpecCompose == InitCompose /\ [][NextCompose]_vars

InitExpand ==
  /\ Idle
  /\ \E from \in Shapes, to \in Shapes : call = [fn |-> "fusibleExpandTo", from |-> from, to |-> to]
  /\ ret = NoRet

CallFusibleExpandTo ==
  /\ call.fn = "fusibleExpandTo"
  /\ ret = NoRet
  /\ ret' = [status |-> "returned", value |-> fusibleExpandTo(call.from, call.to)]
  /\ UNCHANGED <<call, graph, pc, it, before, used>>

NextExpand == CallFusibleExpandTo

SpecExpand == InitExpand /\ [][NextExpand]_vars

\* composeTransposes applied to three permutations a, b, c of one length, in
\* both groupings, and to a with the identity on either side.  A call made
\* with the result of a call that did not return is not made.
PermTriples ==
  UNION { { <<a, b, c>> : a \in Perms(n), b \in Perms(n), c \in Perms(n) } : n \in 1..MaxAssocLen }

identity(n) == [i \in 1..n |-> i - 1]

composeAfter(r, t2) == IF r.status = "returned" THEN composeTransposes(r.value, t2) ELSE r
composeBefore(t1, r) == IF r.status = "returned" THEN composeTransposes(t1, r.value) ELSE r

InitAssoc ==
  /\ Idle
  /\ \E t \in PermTriples : call = [fn |-> "composeThree", a |-> t[1], b |-> t[2], c |-> t[3]]
  /\ ret = NoRet

CallComposeThree ==
  /\ call.fn = "composeThree"
  /\ ret = NoRet
  /\ ret' = [status |-> "returned",
             left |-> composeAfter(composeTransposes(call.a, call.b), call.c),
             right |-> composeBefore(call.a, composeTransposes(call.b, call.c)),
             idLeft |-> composeTransposes(identity(Len(call.a)), call.a),
             idRight |-> composeTransposes(call.a, identity(Len(call.a)))]
  /\ UNCHANGED <<call, graph, pc, it, before, used>>

NextAssoc == CallComposeThree

SpecAssoc == InitAssoc /\ [][NextAssoc]_vars

\* eliminateNopTranspose run on a graph of transposes, and run again on the
\* graph it leaves.  call.run counts the runs.
InitTwice ==
  /\ graph \in TransposeGraphs
  /\ pc = "eliminateNopTranspose"
  /\ it = begin(graph)
  /\ before = graph
  /\ used = usedNodes(graph)
  /\ call = [fn |-> "eliminateNopTranspose", run |-> 1]
  /\ ret = NoRet

SecondRun ==
  /\ pc = "eliminateNopTranspose"
  /\ it = output_
  /\ call.fn = "eliminateNopTranspose"
  /\ call.run = 1
  /\ call' = [call EXCEPT !.run = 2]
  /\ it' = begin(graph)
  /\ before' = graph
  /\ UNCHANGED <<graph, pc, used, ret>>

NextTwice == eliminateNopTranspose \/ SecondRun

SpecTwice == InitTwice /\ [][NextTwice]_vars

\* pushPackingPastRnn alone, from its first iteration to the end of its loop.
\* Besides the packed-sequence graphs above: pack(x, len) -> (p, l) feeding a
\* chain of nodes of kind k, layer j reading its sequence lengths (input 4)
\* from l or straight from the graph input len, as lens[j] says.
LengthsGraph(k, lens, returned) ==
  LET data(j) == IF j = 1 THEN <<"pack", 0>> ELSE <<LayerName[j - 1], 0>>
      lengths(j) == IF lens[j] = "pack" THEN <<"pack", 1>> ELSE <<"in", 1>>
      layer(j) == Named(LayerName[j], k,
                        <<data(j), <<"in", 2>>, <<"in", 2>>, <<"in", 2>>, lengths(j)>>,
                        2, [hidden_size |-> 4])
      named == <<Named("pack", "PackPadded", <<<<"in", 0>>, <<"in", 1>>>>, 2, NoAttrs)>>
               \o [j \in 1..Len(lens) |-> layer(j)]
      outs == If(returned, <<data(Len(lens) + 1)>>)
  IN  MkNamedGraph(3, named, outs, {})

LengthsGraphs ==
  { LengthsGraph(k, lens, returned) :
      k \in {"RNN", "LSTM", "GRU", "Relu"},
      lens \in UNION { [1..n -> {"pack", "in"}] : n \in 0..MaxLayers },
      returned \in BOOLEAN }

InitPush ==
  /\ graph \in PackingGraphs \cup LengthsGraphs
  /\ pc = "pushPackingPastRnn"
  /\ it = begin(graph)
  /\ before = graph
  /\ used = usedNodes(graph)
  /\ call = [fn |-> "pushPackingPastRnn"]
  /\ ret = NoRet

\* One iteration of the loop of lines 230-265, statement by statement: each
\* statement's graph is bound before the next statement runs.
pushPackingPastRnnIteration ==
  /\ pc = "pushPackingPastRnn"
  /\ it # output_
  /\ IF \/ kind(graph, it) # "PackPadded"
        \/ Len(uses(graph, <<it, 0>>)) # 1
        \/ ~isRNN(kind(graph, At(uses(graph, <<it, 0>>), 0)[1]))
     THEN Advance(Visited(graph, it))
     ELSE
       \E rnn \in {At(uses(graph, <<it, 0>>), 0)[1]} :
       \* remove PackPadded from in front of the RNN
       \E g1 \in {replaceAllUsesWith(graph, <<it, 0>>, At(inputs(graph, it), 0))} :
       \E g2 \in {replaceFirstUseWith(g1, <<it, 1>>, At(inputs(g1, it), 1))} :
         IF g2.error # "none" THEN Advance(Visited(g2, it))
         ELSE
           \* and insert new PackPadded after the RNN
           \E newPackPadded \in {g2.next} :
           \E g3 \in {create(g2, "PackPadded", 2)} :
           \E g4 \in {insertAfter(g3, newPackPadded, rnn)} :
           \* make things consume from the new PackPadded
           \E g5 \in {replaceAllUsesWith(g4, <<rnn, 0>>, <<newPackPadded, 0>>)} :
           \E g6 \in {replaceAllUsesWith(g5, <<it, 1>>, <<newPackPadded, 1>>)} :
           \* setup the new PackPadded's inputs
           \E g7 \in {addInput(g6, newPackPadded, <<rnn, 0>>)} :
           \E g8 \in {addInput(g7, newPackPadded, At(inputs(g7, it), 1))} :
           \E r \in {destroyCurrent(g8, it)} :
             Advance(r)

NextPush == pushPackingPastRnnIteration

\* The loop is sequential code: an iteration that can run does run.
SpecPush == InitPush /\ [][NextPush]_vars /\ WF_vars(pushPackingPastRnnIteration)

\* composeTransposes called with any two vectors: of any lengths up to
\* MaxVecLen, with entries from -1 to MaxVecLen.
Vectors == UNION { [1..k -> -1..MaxVecLen] : k \in 0..MaxVecLen }

InitComposeAny ==
  /\ Idle
  /\ \E t1 \in Vectors, t2 \in Vectors : call = [fn |-> "composeTransposes", t1 |-> t1, t2 |-> t2]
  /\ ret = NoRet

SpecComposeAny == InitComposeAny /\ [][NextCompose]_vars

(***************************************************************************)
(* C1.  Transposing by a permutation p puts input dimension p[i] at output *)
(* position i (the Transpose operator's perm attribute).                   *)
(***************************************************************************)
TransposeBy(dims, p) == [i \in 1..Len(p) |-> At(dims, At(p, i - 1))]

\* A tensor whose dimensions are all told apart: dimension i is labelled i.
Labelled(n) == [i \in 1..n |-> i - 1]

\* C1: for permutations p1, p2 of the same length, transposing by
\* composeTransposes(p1, p2) arranges the dimensions as transposing by p1 and
\* then by p2 does.
C1_ComposeIsP1ThenP2 ==
  (call.fn = "composeTransposes" /\ ret.status = "returned") =>
    TransposeBy(Labelled(Len(call.t1)), ret.value)
      = TransposeBy(TransposeBy(Labelled(Len(call.t1)), call.t1), call.t2)

(***************************************************************************)
(* C2.                                                                     *)
(***************************************************************************)
C2_Case ==
  /\ call.fn = "fusibleExpandTo"
  /\ call.from = <<3>>
  /\ call.to = <<3, 4>>
  /\ ret.status = "returned"

\* C2 as stated: from=[3], to=[3,4] is not fusable, with no axis.
C2_NotFusable == C2_Case => ret.value = NotFusible

\* C2 as amended: from=[3], to=[3,4] is fusable by leading alignment, and the
\* axis returned is 0.
C2_LeadingFusable == C2_Case => ret.value = FusibleAxis(0)

C2_Witness == C2_Case

(***************************************************************************)
(* Vocabulary of the claims about the passes.                              *)
(***************************************************************************)
Range(seq) == {seq[i] : i \in 1..Len(seq)}

live(g, n) == n \in DOMAIN g.nodes

\* What the input slot of use u reads.
readBy(g, u) == At(inputs(g, u[1]), u[2])

\* The running pass stands on node `it`, about to run its body.
Visiting(p) == pc = p /\ it # output_

\* The loop of pass p has reached end().
AfterPass(p) == pc = p /\ it = output_

TransposeNodes(g) == {n \in DOMAIN g.nodes : kind(g, n) = "Transpose"}

(***************************************************************************)
(* C3.                                                                     *)
(***************************************************************************)
C3_Case ==
  /\ Visiting("eliminateNopTranspose")
  /\ kind(graph, it) = "Transpose"
  /\ isNopTranspose(attr(graph, it, "perm"))

\* C3: visiting a transpose with an identity permutation, whatever produces
\* its input, eliminateNopTranspose does not fail an assertion, every former
\* use of the transpose's output reads the value that was its input, the
\* transpose is gone and the node list is one shorter.
C3_NopTransposeEliminated ==
  [][ C3_Case =>
        /\ pc' # "failed"
        /\ \A u \in Range(uses(graph, <<it, 0>>)) : readBy(graph', u) = At(inputs(graph, it), 0)
        /\ ~live(graph', it)
        /\ Len(graph'.order) = Len(graph.order) - 1 ]_vars

(***************************************************************************)
(* C4.                                                                     *)
(***************************************************************************)
\* The node fuseBroadcast stands on is a candidate: of a broadcasting kind,
\* not broadcasting yet, with no axis attribute, its last input an expand.
C4_Candidate ==
  /\ Visiting("fuseBroadcast")
  /\ isBroadcasting(kind(graph, it))
  /\ ~(hasAttribute(graph, it, "broadcast") /\ attr(graph, it, "broadcast") # 0)
  /\ ~hasAttribute(graph, it, "axis")
  /\ kind(graph, node(At(inputs(graph, it), Len(inputs(graph, it)) - 1))) = "expand"

C4_expand == node(At(inputs(graph, it), Len(inputs(graph, it)) - 1))

\* C4: a candidate whose expand lacks shape metadata on its input or on its
\* output is skipped: the graph stays as it is and nothing fails.
C4_AbsentMetadataSkipped ==
  [][ (/\ C4_Candidate
       /\ \/ ~isTensor(graph, At(inputs(graph, C4_expand), 0))
          \/ ~isTensor(graph, <<C4_expand, 0>>))
      => (graph' = graph /\ pc' # "failed") ]_vars

(***************************************************************************)
(* C5.                                                                     *)
(***************************************************************************)
\* Every input of every node of the list (and of the Return node) is a graph
\* input or an output of a node earlier in the list.
defBeforeUse(g) ==
  /\ \A i \in 1..Len(g.order) : \A v \in Range(inputs(g, g.order[i])) :
       node(v) = input_ \/ \E j \in 1..(i - 1) : g.order[j] = node(v)
  /\ \A v \in Range(inputs(g, output_)) : node(v) = input_ \/ inList(g.order, node(v))

\* C5: the graph a pass found in def-before-use order is in def-before-use
\* order when the pass has finished, for each of the eight passes.
C5_DefBeforeUse ==
  (pc \in Range(Passes) /\ it = output_ /\ defBeforeUse(before)) => defBeforeUse(graph)

(***************************************************************************)
(* C6.                                                                     *)
(***************************************************************************)
C6_rnn == At(uses(graph, <<it, 0>>), 0)[1]

C6_Case ==
  /\ Visiting("pushPackingPastRnn")
  /\ kind(graph, it) = "PackPadded"
  /\ Len(uses(graph, <<it, 0>>)) = 1
  /\ isRNN(kind(graph, C6_rnn))

\* C6: pushing the packing node `it` past its only consumer rnn, (a) rnn's
\* slots that read the packing node's outputs read its data and length inputs,
\* (b) a new packing node follows rnn at once, reading rnn's primary output and
\* the length input, (c) the former consumers of rnn's primary output read
\* the new node's first output and the other former consumers of the old
\* length output its second, (d) the old packing node is gone.
C6_UsesPreserved ==
  [][ C6_Case =>
        LET n == it
            rnn == C6_rnn
            data == At(inputs(graph, n), 0)
            lengths == At(inputs(graph, n), 1)
            new == graph.next
        IN  /\ pc' # "failed"
            /\ \A k \in 0..(Len(inputs(graph, rnn)) - 1) :
                 /\ At(inputs(graph, rnn), k) = <<n, 0>> => At(inputs(graph', rnn), k) = data
                 /\ At(inputs(graph, rnn), k) = <<n, 1>> => At(inputs(graph', rnn), k) = lengths
            /\ live(graph', new)
            /\ kind(graph', new) = "PackPadded"
            /\ next(graph', rnn) = new
            /\ inputs(graph', new) = <<<<rnn, 0>>, lengths>>
            /\ \A u \in Range(uses(graph, <<rnn, 0>>)) : readBy(graph', u) = <<new, 0>>
            /\ \A u \in Range(uses(graph, <<n, 1>>)) : u[1] # rnn => readBy(graph', u) = <<new, 1>>
            /\ ~live(graph', n) ]_vars

(***************************************************************************)
(* C7.                                                                     *)
(***************************************************************************)
C7_pack == node(At(inputs(graph, it), 0))

\* removeNopPacking stands on an unpack node whose two inputs are the two
\* outputs of one pack node.
C7_Case ==
  /\ Visiting("removeNopPacking")
  /\ kind(graph, it) = "PadPacked"
  /\ kind(graph, C7_pack) = "PackPadded"
  /\ inputs(graph, it) = <<<<C7_pack, 0>>, <<C7_pack, 1>>>>

C7_Rewired ==
  /\ pc' # "failed"
  /\ ~live(graph', it)
  /\ \A k \in {0, 1} : \A u \in Range(uses(graph, <<it, k>>)) :
       readBy(graph', u) = At(inputs(graph, C7_pack), k)

deadByRewiring == {n \in Range(graph.order) : n \in used /\ ~hasUses(graph, n)}

isChain(g, c) ==
  \A j \in 1..(Len(c) - 1) :
    /\ inputs(g, c[j + 1]) = <<<<c[j], 0>>>>
    /\ Len(uses(g, <<c[j], 0>>)) = 1

\* The linear chains of three or more transposes.
Chains(g) ==
  { c \in UNION { [1..k -> TransposeNodes(g)] : k \in 3..Cardinality(TransposeNodes(g)) } :
      isChain(g, c) }

remaining(c) == {j \in 1..Len(c) : live(graph, c[j])}

\* C9 as stated: after the single pass more than one transpose of a chain of
\* three or more remains.
C9_PartlyCollapsed ==
  AfterPass("fuseConsecutiveTransposes") =>
    \A c \in Chains(before) : Cardinality(remaining(c)) > 1

\* C9 as amended: the single pass collapses the whole chain: every transpose
\* of a chain of three or more but the last is removed, so at most one remains.
C9_WhollyCollapsed ==
  AfterPass("fuseConsecutiveTransposes") =>
    \A c \in Chains(before) : remaining(c) \subseteq {Len(c)}

\* fuseConsecutiveTransposes has finished on a graph with a chain of three,
\* and the last transpose of the chain is the one left.
C9_Witness ==
  /\ AfterPass("fuseConsecutiveTransposes")
  /\ \E c \in Chains(before) : remaining(c) = {Len(c)}

(***************************************************************************)
(* C10.                                                                    *)
(***************************************************************************)
C10_Case ==
  /\ Visiting("fuseConsecutiveTransposes")
  /\ kind(graph, it) = "Transpose"
  /\ kind(graph, node(At(inputs(graph, it), 0))) = "Transpose"

\* C10: visiting a transpose T2 whose input is produced by a transpose T1,
\* fuseConsecutiveTransposes sets T2's permutation to
\* composeTransposes(perm(T1), perm(T2)) and T2's input to T1's input; T1 is
\* removed iff its output has no use left; a T1 with other consumers stays
\* with its permutation, and its other consumers stay as they were.
C10_Fused ==
  [][ C10_Case =>
        LET T2 == it
            v == At(inputs(graph, it), 0)
            T1 == node(v)
            others == SelectSeq(uses(graph, v), LAMBDA u : u # <<T2, 0>>)
        IN  /\ attr(graph', T2, "perm")
                 = composeTransposes(attr(graph, T1, "perm"), attr(graph, T2, "perm")).value
            /\ inputs(graph', T2) = inputs(graph, T1)
            /\ ~live(graph', T1) <=> others = <<>>
            /\ others # <<>> =>
                 /\ graph'.nodes[T1] = graph.nodes[T1]
                 /\ uses(graph', v) = others
                 /\ \A u \in Range(others) : graph'.nodes[u[1]] = graph.nodes[u[1]] ]_vars

\* fuseConsecutiveTransposes has fused a transpose with its producer T1, which
\* stays in the graph for its other consumers.
C10_Witness ==
  /\ pc = "fuseConsecutiveTransposes"
  /\ \E T2 \in TransposeNodes(graph) \cap TransposeNodes(before) :
       LET T1 == node(At(inputs(before, T2), 0))
       IN  /\ kind(before, T1) = "Transpose"
           /\ inputs(graph, T2) = inputs(before, T1)
           /\ attr(graph, T2, "perm") # attr(before, T2, "perm")
           /\ live(graph, T1)
           /\ hasUses(graph, T1)

(***************************************************************************)
(* C11.                                                                    *)
(***************************************************************************)
C11_Case ==
  /\ Visiting("fuseTransposeIntoGemm")
  /\ kind(graph, it) = "Gemm"

\* Input i of the Gemm node is produced by a transpose with permutation [1,0].
C11_Matches(i) ==
  /\ kind(graph, node(At(inputs(graph, it), i))) = "Transpose"
  /\ attr(graph, node(At(inputs(graph, it), i)), "perm") = <<1, 0>>

C11_flag(i) == IF i = 0 THEN "transA" ELSE "transB"

\* Some input slot of a node of g reads v.
isRead(g, v) == \E m \in DOMAIN g.nodes : v \in Range(inputs(g, m))

\* C11: visiting a Gemm node, for i in {0,1}: an input produced by a [1,0]
\* transpose becomes the transpose's input, its flag (transA, transB) is
\* toggled (absent counts as false) and the transpose is deleted iff no use of
\* it remains; any other input, the third input and the other flag stay.
C11_TransposeFusedIntoGemm ==
  [][ C11_Case =>
        /\ pc' # "failed"
        /\ At(inputs(graph', it), 2) = At(inputs(graph, it), 2)
        /\ \A i \in {0, 1} :
             LET inp == At(inputs(graph, it), i)
                 T == node(inp)
                 trans == C11_flag(i)
                 prior == hasAttribute(graph, it, trans) /\ attr(graph, it, trans) # 0
             IN  /\ C11_Matches(i) =>
                       /\ At(inputs(graph', it), i) = At(inputs(graph, T), 0)
                       /\ hasAttribute(graph', it, trans)
                       /\ attr(graph', it, trans) = (IF prior THEN 0 ELSE 1)
                       /\ ~live(graph', T) <=> ~isRead(graph', inp)
                 /\ ~C11_Matches(i) =>
                       /\ At(inputs(graph', it), i) = inp
                       /\ hasAttribute(graph', it, trans) <=> hasAttribute(graph, it, trans)
                       /\ hasAttribute(graph, it, trans) =>
                            attr(graph', it, trans) = attr(graph, it, trans) ]_vars

\* fuseTransposeIntoGemm has bypassed a [1,0] transpose at input 0 of a Gemm
\* node whose transA was 1 and is 0 now, input 1 and transB being as they were.
C11_Witness ==
  /\ pc = "fuseTransposeIntoGemm"
  /\ \E n \in DOMAIN graph.nodes \cap DOMAIN before.nodes :
       /\ kind(before, n) = "Gemm"
       /\ kind(before, node(At(inputs(before, n), 0))) = "Transpose"
       /\ attr(before, node(At(inputs(before, n), 0)), "perm") = <<1, 0>>
       /\ hasAttribute(before, n, "transA") /\ attr(before, n, "transA") = 1
       /\ At(inputs(graph, n), 0) = At(inputs(before, node(At(inputs(before, n), 0))), 0)
       /\ attr(graph, n, "transA") = 0
       /\ ~live(graph, node(At(inputs(before, n), 0)))
       /\ At(inputs(graph, n), 1) = At(inputs(before, n), 1)
       /\ ~hasAttribute(graph, n, "transB")

(***************************************************************************)
(* C12.                                                                    *)
(***************************************************************************)
\* The state input the running pass looks at: input 5 of a recurrent node
\* with 6 inputs or more (hidden state), input 6 of an LSTM node with 7 or
\* more (cell state).
C12_index == IF pc = "fixDefaultRnnHiddenState" THEN 5 ELSE 6

C12_Visiting == Visiting("fixDefaultRnnHiddenState") \/ Visiting("fixDefaultLstmCellState")

C12_Applies ==
  /\ C12_Visiting
  /\ IF pc = "fixDefaultRnnHiddenState" THEN isRNN(kind(graph, it)) ELSE kind(graph, it) = "LSTM"
  /\ Len(inputs(graph, it)) > C12_index

\* v is produced by a constant or by a slice of a constant.
C12_Default(g, v) ==
  \/ kind(g, node(v)) = "Constant"
  \/ /\ kind(g, node(v)) = "Slice"
     /\ kind(g, node(At(inputs(g, node(v)), 0))) = "Constant"

\* C12: a state input produced by a constant or a slice of a constant becomes
\* the output of a new fill-by-shape node placed before the recurrent node,
\* its other inputs staying, and the old producer is removed iff it had no
\* other use; in every other case the graph is left as it is.
C12_DefaultStateMaterialized ==
  [][ C12_Visiting =>
        IF C12_Applies /\ C12_Default(graph, At(inputs(graph, it), C12_index))
        THEN LET s == At(inputs(graph, it), C12_index)
                 fill == node(At(inputs(graph', it), C12_index))
                 others == SelectSeq(uses(graph, s), LAMBDA u : u # <<it, C12_index>>)
             IN  /\ pc' # "failed"
                 /\ ~live(graph, fill)
                 /\ live(graph', fill)
                 /\ kind(graph', fill) = "ConstantFill"
                 /\ At(inputs(graph', it), C12_index) = <<fill, 0>>
                 /\ indexOf(graph'.order, fill) < indexOf(graph'.order, it)
                 /\ \A k \in 0..(Len(inputs(graph, it)) - 1) :
                      k # C12_index => At(inputs(graph', it), k) = At(inputs(graph, it), k)
                 /\ Len(inputs(graph', it)) = Len(inputs(graph, it))
                 /\ ~live(graph', node(s)) <=> others = <<>>
        ELSE graph' = graph ]_vars

\* fixDefaultLstmCellState has replaced the cell state of an LSTM node, a
\* slice of a constant, by a fill-by-shape node, and the slice is gone.
C12_Witness ==
  /\ pc = "fixDefaultLstmCellState"
  /\ \E n \in DOMAIN graph.nodes \cap DOMAIN before.nodes :
       /\ kind(before, n) = "LSTM"
       /\ Len(inputs(before, n)) >= 7
       /\ kind(before, node(At(inputs(before, n), 6))) = "Slice"
       /\ kind(graph, node(At(inputs(graph, n), 6))) = "ConstantFill"
       /\ ~live(graph, node(At(inputs(before, n), 6)))

(***************************************************************************)
(* C13.                                                                    *)
(***************************************************************************)
\* The input slots of the nodes of g: <<user, offset>>.
slots(g) == UNION { {<<m, k>> : k \in 0..(Len(inputs(g, m)) - 1)} : m \in DOMAIN g.nodes }

\* Each value's use list holds, once each, the input slots that read it, and
\* every input slot reads a value of a node of the graph and is on that
\* value's use list.
usesConsistent(g) ==
  /\ \A v \in DOMAIN g.uses :
       /\ live(g, node(v))
       /\ \A i \in 1..Len(uses(g, v)) :
            /\ live(g, uses(g, v)[i][1])
            /\ uses(g, v)[i][2] < Len(inputs(g, uses(g, v)[i][1]))
            /\ readBy(g, uses(g, v)[i]) = v
            /\ \A j \in 1..(i - 1) : uses(g, v)[j] # uses(g, v)[i]
  /\ \A u \in slots(g) :
       /\ readBy(g, u) \in DOMAIN g.uses
       /\ u \in Range(uses(g, readBy(g, u)))

\* C13: no pass destroys a node with an output still in use (the assertion of
\* destroy never fails), and after every step each value's use list is
\* exactly the input slots of live nodes that read it.
C13_DestroyOnlyUnused ==
  /\ graph.error # "JIT_ASSERT(outputs_[i]->uses().empty())"
  /\ usesConsistent(graph)

\* A pass has destroyed a node that had uses, and no assertion has failed.
C13_Witness ==
  /\ pc \in Range(Passes)
  /\ graph.error = "none"
  /\ \E n \in DOMAIN before.nodes : n \in used /\ ~live(graph, n)

(***************************************************************************)
(* C14.                                                                    *)
(***************************************************************************)
C14_Case == call.fn = "composeThree" /\ ret.status = "returned"

\* C14: composeTransposes is associative, compose(compose(a,b),c) =
\* compose(a,compose(b,c)), and composing a permutation with the identity on
\* either side returns the permutation, for all permutations of each length.
C14_AssociativeWithIdentity ==
  C14_Case =>
    /\ ret.left.status = "returned"
    /\ ret.left = ret.right
    /\ ret.idLeft = [status |-> "returned", value |-> call.a]
    /\ ret.idRight = [status |-> "returned", value |-> call.a]

\* Three permutations no two of which commute have been composed both ways.
C14_Witness ==
  /\ C14_Case
  /\ composeTransposes(call.a, call.b) # composeTransposes(call.b, call.a)
  /\ composeTransposes(call.b, call.c) # composeTransposes(call.c, call.b)
  /\ composeTransposes(call.a, call.c) # composeTransposes(call.c, call.a)

(***************************************************************************)
(* C15.                                                                    *)
(***************************************************************************)
\* The precondition of composeTransposes: two vectors of one length N, every
\* entry of both in 0..N-1.
C15_Precondition(t1, t2) ==
  /\ Len(t1) = Len(t2)
  /\ \A i \in 1..Len(t1) : t1[i] \in 0..(Len(t1) - 1)
  /\ \A i \in 1..Len(t2) : t2[i] \in 0..(Len(t2) - 1)

\* C15: called with its precondition violated, composeTransposes does not
\* return a result.
C15_ViolationNeverReturns ==
  (/\ call.fn = "composeTransposes"
   /\ ret # NoRet
   /\ ~C15_Precondition(call.t1, call.t2)) => ret.status # "returned"

(***************************************************************************)
(* C16.                                                                    *)
(***************************************************************************)
C16_Node == Visiting("fuseBroadcast") /\ isBroadcasting(kind(graph, it))

C16_Enabled == hasAttribute(graph, it, "broadcast") /\ attr(graph, it, "broadcast") # 0

C16_last == Len(inputs(graph, it)) - 1

C16_expand == node(At(inputs(graph, it), C16_last))

\* The node does not broadcast yet, and its last input is an expand with
\* known input and output shapes that fusibleExpandTo reports fusable.
C16_Fusable ==
  /\ C16_Node
  /\ ~C16_Enabled
  /\ kind(graph, C16_expand) = "expand"
  /\ isTensor(graph, At(inputs(graph, C16_expand), 0))
  /\ isTensor(graph, <<C16_expand, 0>>)
  /\ fusibleExpandTo(sizes(graph, At(inputs(graph, C16_expand), 0)),
                     sizes(graph, <<C16_expand, 0>>)).fusible

\* The rewrite: last input the expand's input, broadcast = 1, axis set iff
\* fusibleExpandTo returned one (and to it), the other inputs as they were,
\* the expand destroyed iff no use of it remains.
C16_Rewritten ==
  LET y == At(inputs(graph, C16_expand), 0)
      r == fusibleExpandTo(sizes(graph, y), sizes(graph, <<C16_expand, 0>>))
  IN  /\ pc' # "failed"
      /\ Len(inputs(graph', it)) = Len(inputs(graph, it))
      /\ At(inputs(graph', it), C16_last) = y
      /\ \A k \in 0..(C16_last - 1) : At(inputs(graph', it), k) = At(inputs(graph, it), k)
      /\ hasAttribute(graph', it, "broadcast")
      /\ attr(graph', it, "broadcast") = 1
      /\ hasAttribute(graph', it, "axis") <=> r.hasAxis
      /\ r.hasAxis => attr(graph', it, "axis") = r.axis
      /\ ~live(graph', C16_expand) <=> ~isRead(graph', <<C16_expand, 0>>)

\* C16 as stated: every fusable node that does not broadcast yet is
\* rewritten, and a node that broadcasts already is left as it is.
C16_FusableRewritten ==
  [][ /\ C16_Fusable => C16_Rewritten
      /\ (C16_Node /\ C16_Enabled) => graph' = graph ]_vars

\* C16 as amended: a fusable node that does not broadcast yet and has no axis
\* attribute is rewritten; a node of a broadcasting kind that does not
\* broadcast yet and has an axis attribute fails the assertion of line 128,
\* fusable or not, and is not rewritten; a node that broadcasts already is
\* left as it is.
C16_FusableRewrittenUnlessAxis ==
  [][ /\ (C16_Fusable /\ ~hasAttribute(graph, it, "axis")) => C16_Rewritten
      /\ (C16_Node /\ ~C16_Enabled /\ hasAttribute(graph, it, "axis")) =>
           /\ pc' = "failed"
           /\ graph'.nodes = graph.nodes
           /\ graph'.uses = graph.uses
           /\ graph'.order = graph.order
      /\ (C16_Node /\ C16_Enabled) => graph' = graph ]_vars

\* fuseBroadcast has fused an expand into a node that had no broadcast
\* attribute: the node broadcasts at axis 0 and the expand is gone.
C16_Witness ==
  /\ pc = "fuseBroadcast"
  /\ \E n \in DOMAIN graph.nodes \cap DOMAIN before.nodes :
       LET last == Len(inputs(before, n)) - 1
           e == node(At(inputs(before, n), last))
       IN  /\ isBroadcasting(kind(before, n))
           /\ ~hasAttribute(before, n, "broadcast")
           /\ kind(before, e) = "expand"
           /\ At(inputs(graph, n), last) = At(inputs(before, e), 0)
           /\ hasAttribute(graph, n, "broadcast") /\ attr(graph, n, "broadcast") = 1
           /\ hasAttribute(graph, n, "axis") /\ attr(graph, n, "axis") = 0
           /\ ~live(graph, e)

(***************************************************************************)
(* C17.                                                                    *)
(***************************************************************************)
NopTransposes(g) == {n \in TransposeNodes(g) : isNopTranspose(attr(g, n, "perm"))}

\* The nodes that had a use and are no longer in the graph.
C17_Deleted == {n \in used : ~live(graph, n)}

C18_Case ==
  /\ Visiting("pushPackingPastRnn")
  /\ kind(graph, it) = "PackPadded"
  /\ \/ Len(uses(graph, <<it, 0>>)) # 1
     \/ ~isRNN(kind(graph, At(uses(graph, <<it, 0>>), 0)[1]))

\* C18: such a packing node is skipped: no node is created or destroyed, no
\* input is rewired, nothing fails.
C18_Skipped == [][ C18_Case => (graph' = graph /\ pc' # "failed") ]_vars

\* pushPackingPastRnn has reached the end of the node list of a graph with a
\* packing node whose primary output has two consumers or more, and the graph
\* is as the pass found it.
C18_Witness ==
  /\ AfterPass("pushPackingPastRnn")
  /\ graph = before
  /\ \E n \in DOMAIN graph.nodes :
       kind(graph, n) = "PackPadded" /\ Len(uses(graph, <<n, 0>>)) > 1

(***************************************************************************)
(* C19.                                                                    *)
(***************************************************************************)
\* The four-step broadcast-fusability algorithm, written from its statement:
\* the core is from without its leading and trailing size-1 dimensions.
RECURSIVE C19_trimLeading(_)
C19_trimLeading(s) ==
  IF s # <<>> /\ Head(s) = 1 THEN C19_trimLeading(Tail(s)) ELSE s

RECURSIVE C19_trimTrailing(_)
C19_trimTrailing(s) ==
  IF s # <<>> /\ s[Len(s)] = 1 THEN C19_trimTrailing(SubSeq(s, 1, Len(s) - 1)) ELSE s

C19_core(from) == C19_trimTrailing(C19_trimLeading(from))

C19_overlap(core, to) == IF Len(core) < Len(to) THEN Len(core) ELSE Len(to)

\* Walking core and to from their ends, every overlapping position matches.
C19_trailingMatches(core, to) ==
  \A i \in 1..C19_overlap(core, to) : core[Len(core) + 1 - i] = to[Len(to) + 1 - i]

\* Walking core and to from their starts, every position matches until core
\* is exhausted.
C19_leadingMatches(core, to) ==
  /\ Len(core) <= Len(to)
  /\ \A i \in 1..Len(core) : core[i] = to[i]

C19_FourSteps(from, to) ==
  IF C19_trailingMatches(C19_core(from), to) THEN FusibleNoAxis
  ELSE IF C19_leadingMatches(C19_core(from), to) THEN FusibleAxis(0)
  ELSE NotFusible

C19_Returned == call.fn = "fusibleExpandTo" /\ ret.status = "returned"

\* C19 as stated: for every pair of shapes, rank(from) > rank(to) included,
\* fusibleExpandTo returns what the four-step algorithm yields.
C19_MatchesFourSteps ==
  C19_Returned => ret.value = C19_FourSteps(call.from, call.to)

\* C19 as amended: a from of higher rank than to is not fusable, with no axis,
\* whatever its core; for every other pair fusibleExpandTo returns what the
\* four-step algorithm yields; an axis, when present, is 0.
C19_MatchesFourStepsWithinRank ==
  C19_Returned =>
    /\ Len(call.from) > Len(call.to) => ret.value = NotFusible
    /\ Len(call.from) <= Len(call.to) => ret.value = C19_FourSteps(call.from, call.to)
    /\ ret.value.hasAxis => ret.value.axis = 0

\* fusibleExpandTo has returned "fusable, no axis" for a from whose trailing
\* size-1 dimension was trimmed before its core matched the end of to.
C19_Witness ==
  /\ C19_Returned
  /\ call.from = <<3, 1>>
  /\ call.to = <<2, 3>>
  /\ ret.value = FusibleNoAxis

(***************************************************************************)
(* C20.                                                                    *)
(***************************************************************************)
\* Every push creates exactly one node, so the pushes of the running pass are
\* the nodes created since it began.
C20_pushes == graph.next - before.next

PackingNodes(g) == {n \in DOMAIN g.nodes : kind(g, n) = "PackPadded"}
RecurrentNodes(g) == {n \in DOMAIN g.nodes : isRNN(kind(g, n))}

\* The (packing chain, recurrent node) pairs of the graph the pass began with.
C20_pairs == Cardinality(PackingNodes(before)) * Cardinality(RecurrentNodes(before))

C20_PushesBounded == C20_pushes <= C20_pairs

\* C20: on every graph pushPackingPastRnn reaches the end of the node list
\* after finitely many iterations, having pushed at most once per (packing
\* chain, recurrent node) pair.
C20_ReachesEndOfList ==
  /\ <>AfterPass("pushPackingPastRnn")
  /\ []C20_PushesBounded

\* Every iteration of SpecPush is the step pushPackingPastRnn takes in the
\* pipeline.
C20_IterationIsLoopBody == [][pushPackingPastRnn]_vars

\* What does hold: the loop stops after finitely many iterations, at the end
\* of the node list or at a push that fails, within the same number of pushes.
C20_StopsOrFails ==
  /\ <>(AfterPass("pushPackingPastRnn") \/ pc = "failed")
  /\ []C20_PushesBounded

\* The pass has reached the end of the node list having pushed the packing
\* node twice: the node created by the first push was visited and pushed on.
C20_PushedTwice ==
  /\ AfterPass("pushPackingPastRnn")
  /\ C20_pushes = 2

====
